---- MODULE Spec2Model ----
(***************************************************************************)
(* Model of api/app.py: the Lambda handler that proxies a static frontend  *)
(* to the Mesh API.                                                        *)
(*                                                                         *)
(* Representation.  A JSON / Python value is a tuple of strings whose      *)
(* first element is its type tag: <<"null">>, <<"false">>, <<"true">>,     *)
(* <<"num", "0">>, <<"list", ...>>, <<"str", t1, ..., tn>>.  The text of a *)
(* string is the concatenation of its tokens t1..tn; a token never holds a *)
(* "/" unless it is the token "/" (or the scheme token "https://"), so     *)
(* prefix, suffix, containment, strip and split-on-"/" on tokens are the   *)
(* same operations as on the characters.  A dict is a function from its    *)
(* keys to values.                                                         *)
(***************************************************************************)
EXTENDS Integers, Sequences, FiniteSets, TLC

\* ------------------------------------------------------------ bounds
\* Largest number of path segments in the secret's base URL.
MaxBasePathLen == 2

\* ------------------------------------------------------------ JSON values
JNull == <<"null">>
JTrue == <<"true">>
JFalse == <<"false">>
JZero == <<"num", "0">>
JEmptyList == <<"list">>
JEmptyStr == <<"str">>
JStr(s) == <<"str", s>>
\* The text of a string value, as its tokens.
StrTokens(v) == Tail(v)
MkStr(tokens) == <<"str">> \o tokens
EmptyDict == [k \in {} |-> JNull]

\* Python truthiness: None, False, 0, "", [] and {} are falsy.
Truthy(v) == v \notin {JNull, JFalse, JZero, JEmptyList, JEmptyStr}
\* Python's `a or b`.
Or(a, b) == IF Truthy(a) THEN a ELSE b
\* dict.get(k): None when the key is absent.
Get(d, k) == IF k \in DOMAIN d THEN d[k] ELSE JNull
\* dict.setdefault(k, v): assigns only when the key is absent.
SetDefault(d, k, v) == IF k \in DOMAIN d THEN d ELSE d @@ (k :> v)
\* `if cond and k not in d: d[k] = v`.
SetIfAbsent(d, cond, k, v) == IF cond /\ k \notin DOMAIN d THEN d @@ (k :> v) ELSE d
\* {k: v for k, v in d.items() if k not in drop}.
Without(d, drop) == [k \in DOMAIN d \ drop |-> d[k]]

\* ------------------------------------------------------------ strings
StartsWith(s, p) == Len(s) >= Len(p) /\ SubSeq(s, 1, Len(p)) = p
EndsWith(s, p) == Len(s) >= Len(p) /\ SubSeq(s, Len(s) - Len(p) + 1, Len(s)) = p
Contains(s, p) == \E i \in 1..(Len(s) - Len(p) + 1) : SubSeq(s, i, i + Len(p) - 1) = p
\* str.rstrip("/") and str.lstrip("/").
RECURSIVE RStripSlash(_)
RStripSlash(s) == IF s # <<>> /\ s[Len(s)] = "/" THEN RStripSlash(SubSeq(s, 1, Len(s) - 1)) ELSE s
RECURSIVE LStripSlash(_)
LStripSlash(s) == IF s # <<>> /\ Head(s) = "/" THEN LStripSlash(Tail(s)) ELSE s
\* Index of the first token of s that is in T, Len(s)+1 when there is none.
RECURSIVE FirstIn(_, _, _)
FirstIn(s, T, i) == IF i > Len(s) \/ s[i] \in T THEN i ELSE FirstIn(s, T, i + 1)
\* Index of the last "/" of s, 0 when there is none.
RECURSIVE LastSlash(_, _)
LastSlash(s, i) == IF i = 0 \/ s[i] = "/" THEN i ELSE LastSlash(s, i - 1)
\* Runs of "/" collapsed to one "/" (urljoin drops the empty segments).
RECURSIVE CollapseSlashes(_)
CollapseSlashes(s) ==
    IF Len(s) < 2 THEN s
    ELSE IF s[1] = "/" /\ s[2] = "/" THEN CollapseSlashes(Tail(s))
    ELSE <<Head(s)>> \o CollapseSlashes(Tail(s))

\* ------------------------------------------------------------ URLs
Schemes == {"http://", "https://"}
HasScheme(u) == u # <<>> /\ Head(u) \in Schemes
\* urllib.parse.urlparse(u): the scheme token, the netloc (only after a
\* scheme's "//"), the path (up to "?") and the rest.
UrlScheme(u) == IF HasScheme(u) THEN <<Head(u)>> ELSE <<>>
UrlAfterScheme(u) == IF HasScheme(u) THEN Tail(u) ELSE u
UrlNetloc(u) ==
    IF HasScheme(u)
    THEN SubSeq(UrlAfterScheme(u), 1, FirstIn(UrlAfterScheme(u), {"/", "?"}, 1) - 1)
    ELSE <<>>
UrlPath(u) ==
    LET rest == UrlAfterScheme(u)
        from == Len(UrlNetloc(u)) + 1
        upto == FirstIn(rest, {"?"}, 1) - 1
    IN SubSeq(rest, from, upto)
\* urllib.parse.urljoin(base, rel) for a relative, unrooted, non-empty rel
\* without dot segments: rel replaces the last segment of the base path, the
\* base's query is dropped, empty middle segments are removed.
UrlJoin(base, rel) ==
    LET bpath == UrlPath(base)
        dir == IF bpath = <<>> THEN <<"/">> ELSE SubSeq(bpath, 1, LastSlash(bpath, Len(bpath)))
    IN UrlScheme(base) \o UrlNetloc(base) \o CollapseSlashes(dir \o rel)

\* ------------------------------------------------------------ mesh_config
\* secret.get(a) or secret.get(b) or "", then .rstrip("/")            (line 57)
ConfigBase(secret) ==
    RStripSlash(StrTokens(Or(Or(Get(secret, "MESH_BASE_URL"), Get(secret, "MESH_API_BASE_URL")), JEmptyStr)))
\* secret.get("MESH_CLIENT_SECRET") or secret.get("MESH_API_KEY")     (line 59)
ConfigClientSecret(secret) == Or(Get(secret, "MESH_CLIENT_SECRET"), Get(secret, "MESH_API_KEY"))

\* The message of the MeshConfigError mesh_config raises, <<>> when it
\* raises none.                                                   (lines 67-70)
ConfigErrorNoCredentialCheck(secret) ==
    IF ConfigBase(secret) = <<>> THEN <<"MESH_BASE_URL missing in secret">> ELSE <<>>
ConfigError(secret) ==
    IF ConfigBase(secret) = <<>> THEN <<"MESH_BASE_URL missing in secret">>
    ELSE IF ~Truthy(ConfigClientSecret(secret)) THEN <<"MESH_API_KEY (client secret) missing in secret">>
    ELSE <<>>

\* has_api_version, from the base URL's path                      (lines 72-76)
HasApiVersionSuffixOnly(base) ==
    LET base_path == RStripSlash(UrlPath(base))
    IN \E suffix \in {<<"/", "v1">>, <<"/", "v2">>, <<"/", "api", "/", "v1">>, <<"/", "api", "/", "v2">>} :
           EndsWith(base_path, suffix)
HasApiVersion(base) ==
    LET base_path == RStripSlash(UrlPath(base))
    IN \/ \E suffix \in {<<"/", "v1">>, <<"/", "v2">>, <<"/", "api", "/", "v1">>, <<"/", "api", "/", "v2">>} :
              EndsWith(base_path, suffix)
       \/ Contains(base_path, <<"/", "api", "/">>)
DefaultPrefix(base) == IF HasApiVersion(base) THEN <<>> ELSE <<"api", "/", "v1", "/">>

\* resolve_path(secret_key, default_path)                         (lines 79-87)
ResolvePath(secret, secret_key, default_path) ==
    LET base == ConfigBase(secret)
        override == Get(secret, secret_key)
    IN IF Truthy(override)
       THEN IF HasScheme(StrTokens(override))
            THEN StrTokens(override)
            ELSE UrlJoin(RStripSlash(base) \o <<"/">>, LStripSlash(StrTokens(override)))
       ELSE UrlJoin(RStripSlash(base) \o <<"/">>, DefaultPrefix(base) \o LStripSlash(default_path))

LinkTokenDefault == <<"linktoken">>
TransferDefault == <<"transfer", "/", "create">>
PortfolioDefault == <<"holdings", "/", "get">>

\* The dict mesh_config returns                                  (lines 89-103)
MeshConfig(secret) ==
    [ base_url |-> ConfigBase(secret),
      client_secret |-> ConfigClientSecret(secret),
      client_id |-> Get(secret, "MESH_CLIENT_ID"),
      customer_id |-> Get(secret, "MESH_CUSTOMER_ID"),
      default_mfa |-> Or(Get(secret, "MESH_DEFAULT_MFA_CODE"), JStr("123456")),
      default_user_id |-> Or(Get(secret, "MESH_DEFAULT_USER_ID"), JStr("demo-user-1")),
      coinbase_integration_id |-> Get(secret, "COINBASE_INTEGRATION_ID"),
      ethereum_network_id |-> Get(secret, "ETHEREUM_NETWORK_ID"),
      pay_to_address |-> Get(secret, "PAY_TO_ADDRESS"),
      link_token_url |-> ResolvePath(secret, "MESH_LINK_TOKEN_PATH", LinkTokenDefault),
      transfer_url |-> ResolvePath(secret, "MESH_TRANSFER_PATH", TransferDefault),
      portfolio_url |-> ResolvePath(secret, "MESH_PORTFOLIO_PATH", PortfolioDefault),
      raw_secret |-> [k \in DOMAIN secret |-> Truthy(secret[k])] ]
\* The value of cfg before mesh_config has returned.
NoCfg == MeshConfig(EmptyDict)

\* ------------------------------------------------------------ inputs
\* A JSON object as the handler sees it: its scalar keys (f) and its
\* "transferOptions" entry, which is absent, null, an empty list, a
\* non-empty string or an object (to).
Obj(f, toKind, to) == [f |-> f, toKind |-> toKind, to |-> to]
EmptyObj == Obj(EmptyDict, "absent", EmptyDict)

BodyFields ==
    { "userId", "userGuid", "customerId", "customerGuid", "clientId", "integrationId",
      "restrictMultipleAccounts", "products", "memo", "asset", "network", "twoFactorCode",
      "accessToken", "authToken", "amount", "amountInFiat", "toAddress",
      "destinationAddress", "symbol", "networkId", "accountId", "account_id", "type" }
OptionFields == {"toAddresses", "amountInFiat", "isInclusiveFeeEnabled", "generatePayLink"}
QueryFields == {"authToken", "accessToken", "access_token", "accountId", "account_id", "type"}
\* The values a caller may give a key.
CallerValues == {JNull, JEmptyStr, JZero, JFalse, JEmptyList, JStr("caller")}
\* Query-string values are strings.
QueryValues == {JEmptyStr, JStr("caller")}

\* The subsets of K with at most n elements.
RECURSIVE KeySets(_, _)
KeySets(K, n) ==
    IF n = 0 THEN {{}}
    ELSE LET smaller == KeySets(K, n - 1)
         IN smaller \cup {S \cup {k} : S \in smaller, k \in K}
\* The dicts with at most n keys of K and values in V.
Dicts(K, V, n) == UNION {[S -> V] : S \in KeySets(K, n)}

\* The key sets of the bodies with more than one key, and the values their
\* keys take.
ComboKeySets ==
    { {"userId", "userGuid"}, {"userGuid", "customerId"}, {"customerId", "customerGuid"},
      {"accessToken", "authToken"}, {"accessToken", "asset"}, {"accessToken", "customerGuid"},
      {"amount", "amountInFiat"}, {"toAddress", "network"}, {"destinationAddress", "networkId"},
      {"authToken", "account_id"} }
ComboValues == {JNull, JEmptyStr, JStr("caller")}
TopLevelDicts == Dicts(BodyFields, CallerValues, 1) \cup UNION {[S -> ComboValues] : S \in ComboKeySets}
\* The nested transferOptions objects, and the top-level keys sent with one.
OptionDicts ==
    Dicts(OptionFields, CallerValues, 1) \cup [{"toAddresses", "amountInFiat"} -> ComboValues]
OptionCompanions ==
    { EmptyDict,
      "accessToken" :> JStr("caller"),
      ("toAddress" :> JStr("caller")) @@ ("networkId" :> JStr("caller")) }
\* The JSON objects a caller may send.
CallerObjects ==
    {Obj(f, "absent", EmptyDict) : f \in TopLevelDicts}
    \cup {Obj(EmptyDict, k, EmptyDict) : k \in {"null", "list", "str"}}
    \cup {Obj(f, "obj", to) : f \in OptionCompanions, to \in OptionDicts}
\* event["body"]: missing or empty, text that is not JSON, a JSON array,
\* or a JSON object.
EventBodies ==
    {[kind |-> k, obj |-> EmptyObj] : k \in {"absent", "malformed", "array"}}
    \cup {[kind |-> "object", obj |-> o] : o \in CallerObjects}
NoBody == [kind |-> "absent", obj |-> EmptyObj]
\* event["queryStringParameters"].
EventQueries ==
    Dicts(QueryFields, QueryValues, 1)
    \cup [{"authToken", "accountId"} -> QueryValues] \cup [{"access_token", "type"} -> QueryValues]

\* The request lines: stage (<<>> when the request context has none) and
\* rawPath.
RequestLines ==
    { <<<<>>, <<>>>>,
      <<<<>>, <<"/">>>>,
      <<<<>>, <<"/", "/">>>>,
      <<<<>>, <<"/", "unknown">>>>,
      <<<<>>, <<"/", "unknown", "/">>>>,
      <<<<>>, <<"/", "mesh">>>>,
      <<<<>>, <<"/", "mesh", "/", "link-token">>>>,
      <<<<>>, <<"/", "mesh", "/", "link-token", "/", "connect">>>>,
      <<<<>>, <<"/", "mesh", "/", "link-token", "/", "pay">>>>,
      <<<<>>, <<"/", "mesh", "/", "portfolio", "/">>>>,
      <<<<>>, <<"/", "mesh", "/", "portfolio", "/", "x">>>>,
      <<<<"prod">>, <<"/", "prod">>>>,
      <<<<"prod">>, <<"/", "prod", "/">>>>,
      <<<<"prod">>, <<"/", "prod", "/", "/">>>>,
      <<<<"prod">>, <<"/", "prod", "/", "mesh", "/", "link-token", "/">>>>,
      <<<<"prod">>, <<"/", "prod", "/", "mesh", "/", "link-token", "/", "pay", "/">>>>,
      <<<<"prod">>, <<"/", "prod", "/", "mesh", "/", "portfolio">>>>,
      <<<<"prod">>, <<"/", "prod", "uction", "/", "mesh", "/", "portfolio">>>>,
      <<<<"prod">>, <<"/", "mesh", "/", "portfolio">>>>,
      <<<<"mesh">>, <<"/", "mesh", "/", "portfolio">>>> }
Methods == {"GET", "POST", "OPTIONS", "DELETE"}

\* The secrets the store may return to the handler.
RequiredParts ==
    { EmptyDict,
      "MESH_BASE_URL" :> MkStr(<<"https://", "h">>),
      "MESH_API_KEY" :> JStr("sk"),
      ("MESH_BASE_URL" :> JEmptyStr) @@ ("MESH_CLIENT_SECRET" :> JStr("sk")),
      ("MESH_BASE_URL" :> MkStr(<<"https://", "h">>)) @@ ("MESH_CLIENT_SECRET" :> JStr("sk")),
      ("MESH_API_BASE_URL" :> MkStr(<<"https://", "h", "/", "v1", "/">>)) @@ ("MESH_API_KEY" :> JStr("sk")) }
IdentityPart ==
    ("MESH_CLIENT_ID" :> JStr("cid")) @@ ("MESH_CUSTOMER_ID" :> JStr("cust"))
    @@ ("MESH_DEFAULT_USER_ID" :> JStr("duser")) @@ ("MESH_DEFAULT_MFA_CODE" :> JStr("mfa"))
PayPart ==
    ("COINBASE_INTEGRATION_ID" :> JStr("cb")) @@ ("ETHEREUM_NETWORK_ID" :> JStr("eth"))
    @@ ("PAY_TO_ADDRESS" :> JStr("0xpay"))
OptionalParts == {EmptyDict, IdentityPart, PayPart, "PAY_TO_ADDRESS" :> JStr("0xpay")}
Secrets == {r @@ o : r \in RequiredParts, o \in OptionalParts}

\* ------------------------------------------------------------ json_body
\* json_body(event) or {}: no body and text that is not JSON give {}; a
\* JSON array stays an array.                          (lines 25-34, 179)
JsonBody(b) == IF b.kind = "object" THEN b.obj ELSE EmptyObj
IsDictBody(b) == b.kind # "array"

\* ------------------------------------------------------------ routing
\* path: rawPath with the "/{stage}" prefix cut when it has it, "/" when
\* nothing is left.                                         (lines 154-156)
StrippedPath(stg, raw) ==
    LET cut == IF stg # <<>> /\ StartsWith(raw, <<"/">> \o stg)
               THEN SubSeq(raw, Len(stg) + 2, Len(raw))
               ELSE raw
    IN IF cut = <<>> THEN <<"/">> ELSE cut
\* normalized_path = path.rstrip("/") or "/"                     (line 166)
NormalizedPath(stg, raw) ==
    LET stripped == RStripSlash(StrippedPath(stg, raw))
    IN IF stripped = <<>> THEN <<"/">> ELSE stripped

LinkTokenPath == <<"/", "mesh", "/", "link-token">>
ConnectPath == <<"/", "mesh", "/", "link-token", "/", "connect">>
PayPath == <<"/", "mesh", "/", "link-token", "/", "pay">>
PortfolioPath == <<"/", "mesh", "/", "portfolio">>

\* The health route compares path, the others normalized_path.  (lines 159-168, 207, 292)
RouteOf(m, stg, raw) ==
    IF m = "OPTIONS" THEN "options"
    ELSE IF StrippedPath(stg, raw) = <<"/">> /\ m = "GET" THEN "health"
    ELSE IF m = "POST" /\ NormalizedPath(stg, raw) \in {LinkTokenPath, ConnectPath} THEN "link"
    ELSE IF m = "POST" /\ NormalizedPath(stg, raw) = PayPath THEN "pay"
    ELSE IF NormalizedPath(stg, raw) = PortfolioPath /\ m \in {"GET", "POST"} THEN "portfolio"
    ELSE "none"
ConfigRoutes == {"link", "pay", "portfolio"}

\* ------------------------------------------------------------ responses
NoPart == [present |-> FALSE, shape |-> "dict", d |-> EmptyDict]
NoPayload == [present |-> FALSE, p |-> EmptyObj]
\* "secretKeys": sorted(get_secret().keys()), a list of key names.  (line 172)
NoKeys == [present |-> FALSE, shape |-> "list", keys |-> {}]
SecretKeys(s) == [present |-> TRUE, shape |-> "list", keys |-> DOMAIN s]
\* _resp(status, body): body holds its scalar entries (d), and the
\* "meshResponse", "payload" and "secretKeys" entries when present. (lines 36-47)
Resp(status, d, mesh, pl, keys) ==
    [statusCode |-> status, d |-> d, meshResponse |-> mesh, payload |-> pl, secretKeys |-> keys]
NoResponse == Resp(0, EmptyDict, NoPart, NoPayload, NoKeys)
Plain(status, d) == Resp(status, d, NoPart, NoPayload, NoKeys)
OkBody == "ok" :> JTrue
HealthBody == ("ok" :> JTrue) @@ ("message" :> JStr("Hello from Lambda + HTTP API"))
\* {"error": f"Route {method} {path} not found"}                 (line 333)
NotFoundBody(m, path) == "error" :> (<<"str", "Route ", m, " ">> \o path \o <<" not found">>)
ConfigErrorBody(detail) ==
    ("error" :> JStr("Mesh API not configured")) @@ ("detail" :> MkStr(detail))

\* ------------------------------------------------------------ builders
ProductsAll == <<"list", "transactions", "portfolio", "transfer">>
ProductsTransfer == <<"list", "transfer">>
FiftyFallback == <<"num", "50">>
StrippedKeys == {"amount", "amountInFiat", "network", "toAddress", "destinationAddress", "asset", "symbol"}

\* client id, customer id and integration id, restrictMultipleAccounts
\* and products, each only when its key is absent.   (lines 189-196, 245-252)
CommonDefaults(c, f, products) ==
    LET f1 == SetIfAbsent(f, Truthy(c.client_id), "clientId", c.client_id)
        f2 == SetIfAbsent(f1, Truthy(c.customer_id) /\ "customerGuid" \notin DOMAIN f1,
                          "customerId", c.customer_id)
        f3 == SetIfAbsent(f2, Truthy(c.coinbase_integration_id), "integrationId",
                          c.coinbase_integration_id)
        f4 == SetDefault(f3, "restrictMultipleAccounts", JTrue)
    IN SetDefault(f4, "products", products)

\* The link-token payload.                                    (lines 179-196)
LinkTokenPayload(c, b) ==
    LET user_id == Or(Or(Or(Get(b.f, "userId"), Get(b.f, "userGuid")), Get(b.f, "customerId")),
                      c.default_user_id)
        f1 == IF Truthy(user_id) THEN SetDefault(b.f, "userId", user_id) ELSE b.f
    IN Obj(CommonDefaults(c, f1, ProductsAll), b.toKind, b.to)

\* if body.get("accessToken"): the legacy direct transfer flow.   (line 214)
LegacyBranchAnyToken(b) == Truthy(Get(b.f, "accessToken")) \/ Truthy(Get(b.f, "authToken"))
LegacyBranch(b) == Truthy(Get(b.f, "accessToken"))

\* The legacy transfer payload.                               (lines 216-224)
TransferPayload(c, b) ==
    LET f1 == SetDefault(b.f, "memo", JStr("Shoes"))
        f2 == SetDefault(f1, "asset", Or(Get(b.f, "asset"), JStr("USDC")))
        f3 == SetDefault(f2, "network", Or(Get(b.f, "network"), JStr("ethereum")))
        f4 == SetDefault(f3, "twoFactorCode", Or(Get(b.f, "twoFactorCode"), c.default_mfa))
        f5 == SetIfAbsent(f4, Truthy(c.client_id), "clientId", c.client_id)
        f6 == SetIfAbsent(f5, Truthy(c.customer_id) /\ "customerGuid" \notin DOMAIN f5,
                          "customerId", c.customer_id)
    IN Obj(f6, b.toKind, b.to)

\* dict(body.get("transferOptions") or {}) raises on a non-empty string. (line 254)
OptionsRaise(b) == b.toKind = "str"
\* [{"networkId": n, "symbol": s, "address": a}]              (lines 262-266)
ToAddressList(n, s, a) ==
    <<"list", "{", "networkId">> \o n \o <<"symbol">> \o s \o <<"address">> \o a \o <<"}">>
\* transfer_options                                           (lines 254-280)
TransferOptions(c, b) ==
    LET t0 == IF b.toKind = "obj" THEN b.to ELSE EmptyDict
        given == Get(t0, "toAddresses")
        address == Or(Or(Get(b.f, "toAddress"), Get(b.f, "destinationAddress")), c.pay_to_address)
        network_id == Or(Or(Get(b.f, "networkId"), Get(b.f, "network")), c.ethereum_network_id)
        symbol == Or(Or(Get(b.f, "symbol"), Get(b.f, "asset")), JStr("USDC"))
        to_addresses == IF Truthy(given) THEN given
                        ELSE IF Truthy(address) /\ Truthy(network_id)
                             THEN ToAddressList(network_id, symbol, address)
                             ELSE given
        t1 == IF Truthy(to_addresses) THEN ("toAddresses" :> to_addresses) @@ t0 ELSE t0
        amount == Or(Get(b.f, "amountInFiat"), Get(b.f, "amount"))
        t2 == SetDefault(t1, "amountInFiat", IF amount = JNull THEN FiftyFallback ELSE amount)
        t3 == SetDefault(t2, "isInclusiveFeeEnabled", JFalse)
    IN SetDefault(t3, "generatePayLink", JFalse)

\* The user id of the pay link-token payload reads only userId.
\*                                                            (lines 238-244)
PayUserId(c, b) ==
    Or(Or(Get(Without(b.f, StrippedKeys), "userId"), Get(b.f, "userId")), c.default_user_id)
\* The pay link-token payload.                                (lines 236-281)
PayLinkTokenPayload(c, b) ==
    LET f0 == Without(b.f, StrippedKeys)
        f1 == IF Truthy(PayUserId(c, b)) THEN SetDefault(f0, "userId", PayUserId(c, b)) ELSE f0
    IN Obj(CommonDefaults(c, f1, ProductsTransfer), "obj", TransferOptions(c, b))

\* auth_token and account_id of the portfolio routes.         (lines 298-306)
PortfolioAuthToken(m, q, b) ==
    IF m = "GET"
    THEN Or(Or(Get(q, "authToken"), Get(q, "accessToken")), Get(q, "access_token"))
    ELSE Or(Get(b.f, "authToken"), Get(b.f, "accessToken"))
PortfolioAccountId(m, q, b) ==
    IF m = "GET"
    THEN Or(Get(q, "accountId"), Get(q, "account_id"))
    ELSE Or(Get(b.f, "accountId"), Get(b.f, "account_id"))
\* The holdings payload.                                      (lines 311-323)
PortfolioPayload(m, q, b) ==
    LET account_id == PortfolioAccountId(m, q, b)
        type == Or(IF m = "GET" THEN Get(q, "type") ELSE Get(b.f, "type"), JStr("coinbase"))
        p0 == ("authToken" :> PortfolioAuthToken(m, q, b)) @@ ("includeMarketValue" :> JTrue)
        p1 == IF Truthy(account_id) THEN p0 @@ ("accountId" :> account_id) ELSE p0
    IN Obj(p1 @@ ("type" :> type), "absent", EmptyDict)

\* ------------------------------------------------------------ mesh_request
\* What urlopen can do: return a response (2xx) whose text is empty, a
\* JSON object, a JSON array or not JSON; raise HTTPError (a status >= 400)
\* whose text is empty, a JSON object without or with a "status" entry, a
\* JSON array or not JSON; raise URLError (no connection, a timeout while
\* connecting); raise the socket's timeout while the response is read.
ErrorCodes == {404, 503}
CodeText == (404 :> "404") @@ (503 :> "503")
Exchanges ==
    {[kind |-> "response", code |-> 200, raw |-> r] : r \in {"empty", "object", "array", "text"}}
    \cup {[kind |-> "httperror", code |-> c, raw |-> r] :
             c \in ErrorCodes, r \in {"empty", "object", "objectWithStatus", "array", "text"}}
    \cup {[kind |-> k, code |-> 0, raw |-> "empty"] : k \in {"urlerror", "readtimeout"}}

JsonObjectBody == "data" :> JStr("upstream")
JsonObjectWithStatus == ("message" :> JStr("upstream")) @@ ("status" :> <<"num", "422">>)
Returned(status, shape, d) == [raised |-> FALSE, status |-> status, shape |-> shape, d |-> d]
Raised == [raised |-> TRUE, status |-> 0, shape |-> "dict", d |-> EmptyDict]
NoResult == Returned(0, "dict", EmptyDict)
NoExchange == [kind |-> "none", code |-> 0, raw |-> "empty"]

\* The (status, body) mesh_request returns, or the exception it lets
\* through.                                                   (lines 130-144)
MeshRequestResult(x) ==
    CASE x.kind = "response" ->
            \* return resp.getcode(), json.loads(raw) if raw else {}
            CASE x.raw = "empty" -> Returned(x.code, "dict", EmptyDict)
              [] x.raw = "object" -> Returned(x.code, "dict", JsonObjectBody)
              [] x.raw = "array" -> Returned(x.code, "list", EmptyDict)
              [] OTHER -> Raised
      [] x.kind = "httperror" ->
            \* body = json.loads(raw) if raw else {}; {"error": raw} when
            \* not JSON; body["status"] = e.code when it has none
            CASE x.raw = "empty" -> Returned(x.code, "dict", "status" :> <<"num", CodeText[x.code]>>)
              [] x.raw = "object" ->
                    Returned(x.code, "dict", JsonObjectBody @@ ("status" :> <<"num", CodeText[x.code]>>))
              [] x.raw = "objectWithStatus" -> Returned(x.code, "dict", JsonObjectWithStatus)
              [] x.raw = "text" ->
                    Returned(x.code, "dict",
                             ("error" :> JStr("upstream text")) @@ ("status" :> <<"num", CodeText[x.code]>>))
              [] OTHER -> Raised
      [] x.kind = "urlerror" -> Returned(599, "dict", "error" :> JStr("reason"))
      [] OTHER -> Raised

\* ------------------------------------------------------------ state
VARIABLES
    method,         \* requestContext.http.method
    stage,          \* requestContext.http.stage, <<>> when there is none
    rawPath,        \* event["rawPath"]
    pc,             \* where the invocation is
    secret,         \* what get_secret returned
    secretFetches,  \* calls of get_secret in this invocation
    cfg,            \* what mesh_config returned
    body,           \* event["body"]
    query,          \* event["queryStringParameters"]
    url,            \* the URL handed to mesh_request
    payload,        \* the payload handed to mesh_request
    meshCalls,      \* calls of mesh_request in this invocation
    exchange,       \* what urlopen did in mesh_request
    result,         \* what mesh_request returned
    response        \* what the handler returned

vars == <<method, stage, rawPath, pc, secret, secretFetches, cfg, body, query, url, payload,
          meshCalls, exchange, result, response>>

Route == RouteOf(method, stage, rawPath)

Init ==
    /\ method \in Methods
    /\ \E line \in RequestLines : stage = line[1] /\ rawPath = line[2]
    /\ pc = "start"
    /\ secret = EmptyDict
    /\ secretFetches = 0
    /\ cfg = NoCfg
    /\ body = NoBody
    /\ query = EmptyDict
    /\ url = <<>>
    /\ payload = EmptyObj
    /\ meshCalls = 0
    /\ exchange = NoExchange
    /\ result = NoResult
    /\ response = NoResponse

\* Lines 150-168, 207, 292, 333: the routes that need no configuration
\* answer at once, the others go on to mesh_config.
Dispatch ==
    /\ pc = "start"
    /\ IF Route = "options" THEN pc' = "done" /\ response' = Plain(200, OkBody)
       ELSE IF Route = "health" THEN pc' = "done" /\ response' = Plain(200, HealthBody)
       ELSE IF Route = "none"
            THEN pc' = "done"
                 /\ response' = Plain(404, NotFoundBody(method, StrippedPath(stage, rawPath)))
       ELSE pc' = "config" /\ response' = response
    /\ UNCHANGED <<method, stage, rawPath, secret, secretFetches, cfg, body, query, url, payload,
                   meshCalls, exchange, result>>

\* mesh_config() and the except clauses around it (lines 169-177, 208-211,
\* 293-296).  get_secret returns the stored secret; on MeshConfigError the
\* link-token routes call get_secret again for the key names.
LoadConfig ==
    /\ pc = "config"
    /\ \E s \in Secrets :
          /\ secret' = s
          /\ IF ConfigError(s) # <<>>
             THEN /\ pc' = "done"
                  /\ cfg' = cfg
                  /\ IF Route = "link"
                     THEN /\ secretFetches' = secretFetches + 2
                          /\ response' = Resp(500, ConfigErrorBody(ConfigError(s)), NoPart, NoPayload,
                                              SecretKeys(s))
                     ELSE /\ secretFetches' = secretFetches + 1
                          /\ response' = Plain(500, ConfigErrorBody(ConfigError(s)))
             ELSE /\ pc' = "build"
                  /\ cfg' = MeshConfig(s)
                  /\ secretFetches' = secretFetches + 1
                  /\ response' = response
    /\ UNCHANGED <<method, stage, rawPath, body, query, url, payload, meshCalls, exchange, result>>

\* get_secret raises: the secret is missing from the store or is not JSON
\* (lines 22-23); nothing catches it.
SecretBackendError ==
    /\ pc = "config"
    /\ pc' = "raised"
    /\ secretFetches' = secretFetches + 1
    /\ UNCHANGED <<method, stage, rawPath, secret, cfg, body, query, url, payload, meshCalls, exchange,
                   result, response>>

\* Lines 179-196: the link-token and connect routes build their payload.
BuildLinkToken ==
    /\ pc = "build" /\ Route = "link"
    /\ \E b \in EventBodies :
          /\ body' = b
          /\ IF IsDictBody(b)
             THEN pc' = "call" /\ payload' = LinkTokenPayload(cfg, JsonBody(b))
                  /\ url' = cfg.link_token_url
             ELSE pc' = "raised" /\ payload' = payload /\ url' = url
    /\ UNCHANGED <<method, stage, rawPath, secret, secretFetches, cfg, query, meshCalls, exchange, result,
                   response>>

\* Lines 213-224: the pay route, body with an access token.
BuildLegacyTransfer ==
    /\ pc = "build" /\ Route = "pay"
    /\ \E b \in EventBodies :
          /\ IsDictBody(b) /\ LegacyBranch(JsonBody(b))
          /\ body' = b
          /\ payload' = TransferPayload(cfg, JsonBody(b))
          /\ url' = cfg.transfer_url
          /\ pc' = "call"
    /\ UNCHANGED <<method, stage, rawPath, secret, secretFetches, cfg, query, meshCalls, exchange, result,
                   response>>

\* Lines 213-214, 236-281: the pay route, body without an access token.
BuildPayLinkToken ==
    /\ pc = "build" /\ Route = "pay"
    /\ \E b \in EventBodies :
          /\ ~(IsDictBody(b) /\ LegacyBranch(JsonBody(b)))
          /\ body' = b
          /\ IF IsDictBody(b) /\ ~OptionsRaise(JsonBody(b))
             THEN pc' = "call" /\ payload' = PayLinkTokenPayload(cfg, JsonBody(b))
                  /\ url' = cfg.link_token_url
             ELSE pc' = "raised" /\ payload' = payload /\ url' = url
    /\ UNCHANGED <<method, stage, rawPath, secret, secretFetches, cfg, query, meshCalls, exchange, result,
                   response>>

\* Lines 298-323: the portfolio routes read the token from the query (GET)
\* or the body (POST) and answer 400 without one.
BuildPortfolio ==
    /\ pc = "build" /\ Route = "portfolio"
    /\ \E b \in EventBodies, q \in EventQueries :
          /\ IF method = "GET" THEN b = NoBody ELSE q = EmptyDict
          /\ body' = b /\ query' = q
          /\ IF ~IsDictBody(b)
             THEN pc' = "raised" /\ payload' = payload /\ url' = url /\ response' = response
             ELSE IF ~Truthy(PortfolioAuthToken(method, q, JsonBody(b)))
             THEN pc' = "done" /\ payload' = payload /\ url' = url
                  /\ response' = Plain(400, "error" :> JStr("authToken is required"))
             ELSE pc' = "call" /\ payload' = PortfolioPayload(method, q, JsonBody(b))
                  /\ url' = cfg.portfolio_url /\ response' = response
    /\ UNCHANGED <<method, stage, rawPath, secret, secretFetches, cfg, meshCalls, exchange, result>>

\* The one call of mesh_request (lines 198, 226, 283, 325).
MeshRequest ==
    /\ pc = "call"
    /\ \E x \in Exchanges :
          /\ exchange' = x
          /\ result' = MeshRequestResult(x)
          /\ pc' = IF MeshRequestResult(x).raised THEN "raised" ELSE "respond"
    /\ meshCalls' = meshCalls + 1
    /\ UNCHANGED <<method, stage, rawPath, secret, secretFetches, cfg, body, query, url, payload,
                   response>>

ErrorText ==
    [link |-> "Mesh link token request failed", legacy |-> "Mesh transfer failed",
     pay |-> "Mesh pay link token request failed", portfolio |-> "Mesh portfolio request failed"]
Branch == IF Route = "pay" /\ LegacyBranch(JsonBody(body)) THEN "legacy" ELSE Route
\* public_payload = {k: v for k, v in transfer_payload.items() if k != "accessToken"} (line 228)
PublicPayload(p) == Obj(Without(p.f, {"accessToken"}), p.toKind, p.to)
\* The error envelope's "payload" entry.       (lines 203, 232, 288, 327-330)
EchoedPayload ==
    IF Branch = "portfolio" THEN NoPayload
    ELSE IF Branch = "legacy" THEN [present |-> TRUE, p |-> PublicPayload(payload)]
    ELSE [present |-> TRUE, p |-> payload]

\* Lines 199-205, 227-234, 284-290, 326-331: the envelope around an
\* upstream status >= 400, the upstream body under status 200 otherwise.
Respond ==
    /\ pc = "respond"
    /\ pc' = "done"
    /\ response' =
          IF result.status >= 400
          THEN Resp(result.status, "error" :> JStr(ErrorText[Branch]),
                    [present |-> TRUE, shape |-> result.shape, d |-> result.d],
                    EchoedPayload, NoKeys)
          ELSE Resp(200, IF result.shape = "dict" THEN result.d ELSE EmptyDict,
                    [present |-> FALSE, shape |-> result.shape, d |-> EmptyDict],
                    NoPayload, NoKeys)
    /\ UNCHANGED <<method, stage, rawPath, secret, secretFetches, cfg, body, query, url, payload,
                   meshCalls, exchange, result>>

Next ==
    \/ Dispatch
    \/ LoadConfig
    \/ SecretBackendError
    \/ BuildLinkToken
    \/ BuildLegacyTransfer
    \/ BuildPayLinkToken
    \/ BuildPortfolio
    \/ MeshRequest
    \/ Respond

Spec == Init /\ [][Next]_vars

\* ------------------------------------------------------------ mesh_config alone
\* mesh_config as a function of the stored secret, over base URLs with and
\* without a scheme, a path, trailing slashes and a query string, and over
\* the endpoint overrides.
BaseSegments == {"api", "v1", "v2", "v3", "mesh"}
RECURSIVE PathsUpTo(_)
PathsUpTo(n) ==
    IF n = 0 THEN {<<>>}
    ELSE PathsUpTo(n - 1) \cup {p \o <<"/", seg>> : p \in PathsUpTo(n - 1), seg \in BaseSegments}
BaseUrls ==
    {sch \o <<"h">> \o p \o sl \o q :
        sch \in {<<>>, <<"https://">>}, p \in PathsUpTo(MaxBasePathLen),
        sl \in {<<>>, <<"/">>}, q \in {<<>>, <<"?", "k=1">>}}
LinkTokenOverrides ==
    { EmptyDict,
      "MESH_LINK_TOKEN_PATH" :> JEmptyStr,
      "MESH_LINK_TOKEN_PATH" :> MkStr(<<"/", "custom", "/", "lt">>),
      "MESH_LINK_TOKEN_PATH" :> MkStr(<<"https://", "other", "/", "lt">>) }
TransferOverrides == {EmptyDict, "MESH_TRANSFER_PATH" :> MkStr(<<"v9", "/", "transfer">>)}
ConfigSecrets ==
    {("MESH_BASE_URL" :> MkStr(b)) @@ ("MESH_API_KEY" :> JStr("sk")) @@ l @@ t :
        b \in BaseUrls, l \in LinkTokenOverrides, t \in TransferOverrides}
    \cup {"MESH_BASE_URL" :> MkStr(b) : b \in BaseUrls}

InitCfg ==
    /\ method = "GET" /\ stage = <<>> /\ rawPath = <<"/">>
    /\ pc = "resolve"
    /\ secret = EmptyDict
    /\ secretFetches = 0
    /\ cfg = NoCfg
    /\ body = NoBody
    /\ query = EmptyDict
    /\ url = <<>>
    /\ payload = EmptyObj
    /\ meshCalls = 0
    /\ exchange = NoExchange
    /\ result = NoResult
    /\ response = NoResponse

\* Lines 56-103: the secret is read and the configuration derived, or
\* MeshConfigError raised.
ResolveConfig ==
    /\ pc = "resolve"
    /\ \E s \in ConfigSecrets :
          /\ secret' = s
          /\ IF ConfigError(s) # <<>>
             THEN pc' = "configerror" /\ cfg' = cfg
             ELSE pc' = "resolved" /\ cfg' = MeshConfig(s)
    /\ secretFetches' = secretFetches + 1
    /\ UNCHANGED <<method, stage, rawPath, body, query, url, payload, meshCalls, exchange, result, response>>

NextCfg == ResolveConfig

SpecCfg == InitCfg /\ [][NextCfg]_vars

\* ------------------------------------------------------------ claims
Caller == JsonBody(body)
\* The invocation has handed a payload to mesh_request.
Called == meshCalls > 0
\* Every scalar value of the response body, the echoed payload included.
ResponseValues ==
    {response.d[k] : k \in DOMAIN response.d}
    \cup {response.meshResponse.d[k] : k \in DOMAIN response.meshResponse.d}
    \cup {response.payload.p.f[k] : k \in DOMAIN response.payload.p.f}
    \cup {response.payload.p.to[k] : k \in DOMAIN response.payload.p.to}
TokenFields == {"accessToken", "authToken"}

\* C1: no response body holds the secret's credential, and the payload
\* echoed in an upstream-error envelope holds no access/auth token field
\* the caller supplied.
C1_NoSecretsInResponse ==
    pc = "done" =>
        /\ \A k \in {"MESH_CLIENT_SECRET", "MESH_API_KEY"} \cap DOMAIN secret :
               Truthy(secret[k]) => secret[k] \notin ResponseValues
        /\ response.payload.present =>
               \A k \in TokenFields :
                   Truthy(Get(Caller.f, k)) => k \notin DOMAIN response.payload.p.f

\* C2: mesh_request never raises: whatever the HTTP exchange does, the
\* handler gets a (status, body) pair; after an HTTP error status the body
\* has a "status" entry, after a transport failure the status is 599 and
\* the body has an "error" entry.
C2_MeshRequestNeverRaises ==
    Called =>
        /\ pc # "raised"
        /\ (pc \in {"respond", "done"} /\ result.status \in ErrorCodes) => "status" \in DOMAIN result.d
        /\ (pc \in {"respond", "done"} /\ result.status = 599) => "error" \in DOMAIN result.d

\* C3: an invocation calls mesh_request at most once, and not at all when
\* it ends as OPTIONS 200, the health response, a 404, the 400 for a missing
\* auth token, or with a secret that lacks the base URL or the credential.
C3_AtMostOneUpstreamCall ==
    /\ meshCalls <= 1
    /\ (pc = "done" /\ Route \in {"options", "health", "none"}) => meshCalls = 0
    /\ (pc = "done" /\ Route = "portfolio"
           /\ ~Truthy(PortfolioAuthToken(method, query, Caller))) => meshCalls = 0
    /\ (secretFetches > 0 /\ pc # "raised"
           /\ (ConfigBase(secret) = <<>> \/ ~Truthy(ConfigClientSecret(secret)))) =>
           meshCalls = 0 /\ pc = "done" /\ response.statusCode = 500
\* An upstream failure was answered without a second call.
C3_Witness == pc = "done" /\ meshCalls = 1 /\ result.status \in {503, 599}

\* C4: the secret is fetched exactly once in every invocation that reaches
\* a configuration-requiring route, and never in one answered as OPTIONS,
\* GET / or 404.
C4_SecretFetchedOnce ==
    pc = "done" => secretFetches = (IF Route \in ConfigRoutes THEN 1 ELSE 0)

\* C5: on a configuration-requiring route a secret that lacks the base URL
\* or the credential gives 500 with the error detail and the key-presence
\* map of the secret.
C5_ConfigErrorReportsKeyPresence ==
    (pc = "done" /\ Route \in ConfigRoutes
        /\ (ConfigBase(secret) = <<>> \/ ~Truthy(ConfigClientSecret(secret)))) =>
        /\ response.statusCode = 500
        /\ "detail" \in DOMAIN response.d
        /\ response.secretKeys.present
        /\ response.secretKeys.shape = "map"
        /\ response.secretKeys.keys = DOMAIN secret

\* The keys each builder defaults.
LinkDefaulted == {"userId", "clientId", "customerId", "integrationId", "restrictMultipleAccounts", "products"}
LegacyDefaulted == {"memo", "asset", "network", "twoFactorCode", "clientId", "customerId"}
\* C6: a key the builder would default and the caller's structure already
\* holds, with any JSON value, has the caller's value in the payload sent
\* upstream, the keys of the nested transferOptions object included.
C6_SetIfAbsent ==
    (Called /\ Route \in {"link", "pay"}) =>
        /\ \A k \in (IF Branch = "legacy" THEN LegacyDefaulted ELSE LinkDefaulted) \cap DOMAIN Caller.f :
               payload.f[k] = Caller.f[k]
        /\ (Branch = "pay" /\ Caller.toKind = "obj") =>
               \A k \in OptionFields \cap DOMAIN Caller.to : payload.to[k] = Caller.to[k]

\* C7: an identity key is filled from the configuration only when the
\* caller's body has none of its aliases: userId takes the configured
\* default only when the body gives no userId, userGuid or customerId,
\* customerId only when it has no customerId and no customerGuid, clientId
\* only when it has no clientId.
C7_IdentityDefaultsRespectAliases ==
    (Called /\ Route \in {"link", "pay"}) =>
        /\ ("userId" \notin DOMAIN Caller.f /\ "userId" \in DOMAIN payload.f
               /\ payload.f["userId"] = cfg.default_user_id) =>
               \A k \in {"userGuid", "customerId"} : ~Truthy(Get(Caller.f, k))
        /\ ("customerId" \notin DOMAIN Caller.f /\ "customerId" \in DOMAIN payload.f) =>
               "customerGuid" \notin DOMAIN Caller.f
        /\ "clientId" \in DOMAIN Caller.f => payload.f["clientId"] = Caller.f["clientId"]

VersionSuffixes == {<<"/", "v1">>, <<"/", "v2">>, <<"/", "api", "/", "v1">>, <<"/", "api", "/", "v2">>}
\* The URL the claim gives an endpoint without an override, the prefix
\* being prepended when the path p names no API version.
ClaimedUrl(base, p, default) ==
    LET versioned == (\E sfx \in VersionSuffixes : EndsWith(p, sfx)) \/ Contains(p, <<"/", "api", "/">>)
        rel == IF versioned THEN default ELSE <<"api", "/", "v1", "/">> \o default
    IN IF "?" \in {base[i] : i \in 1..Len(base)}
       THEN UrlJoin(base \o <<"/">>, rel)
       ELSE base \o <<"/">> \o rel
EndpointUrls(p) ==
    /\ "MESH_LINK_TOKEN_PATH" \notin DOMAIN secret =>
           cfg.link_token_url = ClaimedUrl(cfg.base_url, p, LinkTokenDefault)
    /\ "MESH_TRANSFER_PATH" \notin DOMAIN secret =>
           cfg.transfer_url = ClaimedUrl(cfg.base_url, p, TransferDefault)
    /\ "MESH_PORTFOLIO_PATH" \notin DOMAIN secret =>
           cfg.portfolio_url = ClaimedUrl(cfg.base_url, p, PortfolioDefault)
\* C8 as stated: the prefix api/v1/ is prepended if and only if the base
\* URL's path does not end with /v1, /v2, /api/v1 or /api/v2 and does not
\* contain /api/.
C8_PrefixByBasePath == pc = "resolved" => EndpointUrls(UrlPath(cfg.base_url))
\* C8 as amended: the same, for the base URL's path with its trailing
\* slashes stripped.
C8_PrefixByStrippedBasePath == pc = "resolved" => EndpointUrls(RStripSlash(UrlPath(cfg.base_url)))
\* The spec's example: base https://h gives https://h/api/v1/linktoken.
C8_Witness ==
    /\ pc = "resolved"
    /\ cfg.base_url = <<"https://", "h">>
    /\ "MESH_LINK_TOKEN_PATH" \notin DOMAIN secret
    /\ cfg.link_token_url = <<"https://", "h", "/", "api", "/", "v1", "/", "linktoken">>

RouteTable ==
    { <<"GET", <<"/">>>>, <<"POST", LinkTokenPath>>, <<"POST", ConnectPath>>, <<"POST", PayPath>>,
      <<"GET", PortfolioPath>>, <<"POST", PortfolioPath>> }
\* C9: a request other than OPTIONS gets the handler's 404 if and only if
\* its normalized (method, path) is not in the route table, and every
\* OPTIONS request gets 200 {"ok": true}.
C9_RoutingOnNormalizedPath ==
    pc = "done" =>
        IF method = "OPTIONS" THEN response = Plain(200, OkBody)
        ELSE (response = Plain(404, NotFoundBody(method, StrippedPath(stage, rawPath))))
             <=> (<<method, NormalizedPath(stage, rawPath)>> \notin RouteTable)

\* What the pay route sends when it takes the transfer branch, and when it
\* takes the link-token branch.
SentTransfer ==
    /\ url = cfg.transfer_url /\ url # cfg.link_token_url
    /\ \A k \in DOMAIN Caller.f : payload.f[k] = Caller.f[k]
    /\ payload.toKind = Caller.toKind /\ payload.to = Caller.to
SentPayLinkToken ==
    /\ url = cfg.link_token_url /\ url # cfg.transfer_url
    /\ payload.toKind = "obj"
    /\ DOMAIN payload.f \cap StrippedKeys = {}
\* C10 as stated: the pay route takes the transfer branch exactly when the
\* body carries an access/auth token (accessToken or authToken).
C10_BranchOnAnyToken ==
    (Called /\ Route = "pay") =>
        IF \E k \in TokenFields : Truthy(Get(Caller.f, k)) THEN SentTransfer ELSE SentPayLinkToken
\* C10 as amended: the pay route takes the transfer branch exactly when the
\* body's accessToken is present and truthy; an authToken selects nothing.
C10_BranchOnAccessToken ==
    (Called /\ Route = "pay") =>
        /\ meshCalls = 1
        /\ IF Truthy(Get(Caller.f, "accessToken")) THEN SentTransfer ELSE SentPayLinkToken
\* The transfer branch was taken and answered.
C10_Witness ==
    /\ pc = "done" /\ Route = "pay" /\ meshCalls = 1
    /\ Truthy(Get(Caller.f, "accessToken")) /\ url = cfg.transfer_url

====
